---- MODULE Spec2Model ----
(***************************************************************************)
(* Model of the configuration derivation helpers of the Atom package       *)
(* generator (src/lib/helpers.js) and of the calls the generator makes to  *)
(* them (src/unnamed/part_000).                                            *)
(*                                                                         *)
(* JavaScript values are modelled as follows.                              *)
(*   - A string is a TLA+ string; it is taken apart with Len and SubSeq,   *)
(*     so endsWith, toLowerCase and the default sort order are computed    *)
(*     character by character.                                             *)
(*   - An answer record (props) is a TLA+ record; a property that is       *)
(*     undefined in JavaScript is a field missing from its DOMAIN.         *)
(*   - Where one slot can hold values of several JavaScript types, the     *)
(*     value is tagged: Str(s), Arr(xs) or Undefined.                      *)
(*   - A call completes with Return(v) or Throw(message).                  *)
(***************************************************************************)
EXTENDS Integers, Sequences, FiniteSets, TLC

VARIABLES
    props,     \* the answer record the caller holds and passes to the helpers
    call,      \* the helper called last ("none" before the first call)
    ret,       \* how that call completed
    earlier,   \* an earlier call kept for comparison: [call, props, ret]
    filePath,  \* the filePath argument of the path helper called last
    templates, \* the file system: the paths of the template files that exist
    env,       \* process.env: a record of the environment variables set
    pc,        \* the position of a run of the generator
    asked,     \* the number of questions of the prompt dealt with so far
    effects    \* what a run has done so far to the file system and the
               \* package manager, in order

vars == <<props, call, ret, earlier, filePath, templates, env, pc, asked,
          effects>>

\* What the calls of the helpers on their own leave alone
generator == <<templates, env, pc, asked, effects>>

----------------------------------------------------------------------------
(* JavaScript values *)

Str(s) == [str |-> s]
Arr(xs) == [arr |-> xs]
Undefined == [undefined |-> TRUE]

IsStr(v) == DOMAIN v = {"str"}
IsArr(v) == DOMAIN v = {"arr"}
IsUndefined(v) == DOMAIN v = {"undefined"}

Return(v) == [kind |-> "return", value |-> v]
Throw(msg) == [kind |-> "throw", error |-> msg]
NoCall == [kind |-> "none"]

Has(p, f) == f \in DOMAIN p

\* props.f read as a value that may be undefined
Prop(p, f) == IF Has(p, f) THEN Str(p[f]) ELSE Undefined

\* `${props.f}` for a string property: undefined is rendered as "undefined"
Template(p, f) == IF Has(p, f) THEN p[f] ELSE "undefined"

\* features.includes(x); features is an array without repetition, kept as a set
Includes(p, x) == x \in p.features

----------------------------------------------------------------------------
(* Strings *)

\* UTF-16 code units of the characters that occur in the model's strings
CharCode ==
    (" " :> 32) @@ ("\"" :> 34) @@ ("&" :> 38) @@ ("'" :> 39) @@ ("(" :> 40) @@
    (")" :> 41) @@ ("*" :> 42) @@ ("," :> 44) @@ ("-" :> 45) @@ ("." :> 46) @@
    ("/" :> 47) @@ ("0" :> 48) @@ ("1" :> 49) @@ ("2" :> 50) @@ ("3" :> 51) @@
    ("4" :> 52) @@ ("5" :> 53) @@ ("6" :> 54) @@ ("7" :> 55) @@ ("8" :> 56) @@
    ("9" :> 57) @@ (":" :> 58) @@ ("@" :> 64) @@
    ("A" :> 65) @@ ("B" :> 66) @@ ("C" :> 67) @@ ("D" :> 68) @@ ("E" :> 69) @@
    ("F" :> 70) @@ ("G" :> 71) @@ ("H" :> 72) @@ ("I" :> 73) @@ ("J" :> 74) @@
    ("K" :> 75) @@ ("L" :> 76) @@ ("M" :> 77) @@ ("N" :> 78) @@ ("O" :> 79) @@
    ("P" :> 80) @@ ("Q" :> 81) @@ ("R" :> 82) @@ ("S" :> 83) @@ ("T" :> 84) @@
    ("U" :> 85) @@ ("V" :> 86) @@ ("W" :> 87) @@ ("X" :> 88) @@ ("Y" :> 89) @@
    ("Z" :> 90) @@ ("_" :> 95) @@
    ("a" :> 97) @@ ("b" :> 98) @@ ("c" :> 99) @@ ("d" :> 100) @@ ("e" :> 101) @@
    ("f" :> 102) @@ ("g" :> 103) @@ ("h" :> 104) @@ ("i" :> 105) @@ ("j" :> 106) @@
    ("k" :> 107) @@ ("l" :> 108) @@ ("m" :> 109) @@ ("n" :> 110) @@ ("o" :> 111) @@
    ("p" :> 112) @@ ("q" :> 113) @@ ("r" :> 114) @@ ("s" :> 115) @@ ("t" :> 116) @@
    ("u" :> 117) @@ ("v" :> 118) @@ ("w" :> 119) @@ ("x" :> 120) @@ ("y" :> 121) @@
    ("z" :> 122) @@ ("{" :> 123) @@ ("|" :> 124) @@ ("}" :> 125)

CharAt(s, i) == SubSeq(s, i, i)

\* String.prototype.endsWith
EndsWith(s, suffix) ==
    /\ Len(s) >= Len(suffix)
    /\ SubSeq(s, Len(s) - Len(suffix) + 1, Len(s)) = suffix

\* Array.prototype.join(',') of an array of strings
RECURSIVE JoinFrom(_, _)
JoinFrom(xs, i) ==
    IF i > Len(xs) THEN ""
    ELSE IF i = Len(xs) THEN xs[i]
    ELSE xs[i] \o "," \o JoinFrom(xs, i + 1)

\* The string of an array element, as the default sort comparator applies it:
\* a string is itself, a nested array is its elements joined by commas
ElementString(v) == IF IsStr(v) THEN v.str ELSE JoinFrom(v.arr, 1)

\* Comparison of two strings by UTF-16 code units: -1, 0 or 1
RECURSIVE CompareFrom(_, _, _)
CompareFrom(a, b, i) ==
    IF i > Len(a) THEN (IF i > Len(b) THEN 0 ELSE -1)
    ELSE IF i > Len(b) THEN 1
    ELSE LET x == CharCode[CharAt(a, i)]
             y == CharCode[CharAt(b, i)]
         IN  IF x < y THEN -1
             ELSE IF x > y THEN 1
             ELSE CompareFrom(a, b, i + 1)

StringLess(a, b) == CompareFrom(a, b, 1) < 0

\* One step of the stable sort: e goes behind the elements of the sorted
\* list whose strings are not greater than its own
SortInsert(sorted, e) ==
    LET behind == Cardinality({i \in 1..Len(sorted) :
                      ~StringLess(ElementString(e), ElementString(sorted[i]))})
    IN  SubSeq(sorted, 1, behind) \o <<e>>
        \o SubSeq(sorted, behind + 1, Len(sorted))

RECURSIVE SortUpTo(_, _)
SortUpTo(xs, n) ==
    IF n = 0 THEN <<>> ELSE SortInsert(SortUpTo(xs, n - 1), xs[n])

\* Array.prototype.sort() without a comparator: stable, by the elements' strings
Sort(xs) == SortUpTo(xs, Len(xs))

\* String.prototype.split(separator) for a separator of one character
Split(s, separator) ==
    LET cuts == {0} \cup {i \in 1..Len(s) : CharAt(s, i) = separator}
                    \cup {Len(s) + 1}
        Cut(k) == CHOOSE c \in cuts : Cardinality({d \in cuts : d < c}) = k
    IN  [k \in 1..(Cardinality(cuts) - 1) |->
            SubSeq(s, Cut(k - 1) + 1, Cut(k) - 1)]

WhiteSpace == {" ", "\t", "\n", "\r"}

\* String.prototype.trim
Trim(s) ==
    LET inked == {i \in 1..Len(s) : CharAt(s, i) \notin WhiteSpace}
    IN  IF inked = {} THEN ""
        ELSE SubSeq(s, CHOOSE i \in inked : \A j \in inked : i <= j,
                       CHOOSE i \in inked : \A j \in inked : i >= j)

\* push(...strings)
Strs(names) == [i \in 1..Len(names) |-> Str(names[i])]

----------------------------------------------------------------------------
(* getDependencies *)

BaselineDevDependencies ==
    <<"husky", "lint-staged", "jsonlint", "npm-run-all", "prettierx",
      "source-map-explorer", "stylelint">>

WebpackDevDependencies ==
    <<"sass-loader", "style-loader", "css-loader", "webpack-cli", "webpack">>

RollupDevDependencies ==
    <<"rollup", "@rollup/plugin-babel", "@rollup/plugin-commonjs",
      "@rollup/plugin-json", "@rollup/plugin-node-resolve",
      "rollup-plugin-scss", "rollup-plugin-terser">>

\* Mutant: the coffee linter is not pushed
CoffeescriptDevDependencies_NoLinter == <<"coffeescript@2">>

CoffeescriptDevDependencies == <<"coffeelint@2", "coffeescript@2">>

JavascriptDevDependencies(p) ==
    <<"@babel/core", "@babel/eslint-parser",
      "@babel/plugin-proposal-export-namespace-from", "@babel/preset-env",
      "core-js@3", "eslint-plugin-json", "eslint-plugin-node", "eslint",
      "eslint-config-" \o Template(p, "eslintConfig")>>

TypescriptDevDependencies(p) ==
    <<"@babel/core", "@babel/eslint-parser",
      "@babel/plugin-proposal-export-namespace-from", "@babel/preset-env",
      "@types/atom", "@types/node", "@typescript-eslint/eslint-plugin",
      "@typescript-eslint/parser", "core-js@3", "eslint",
      "eslint-config-" \o Template(p, "eslintConfig"),
      "eslint-plugin-json", "tslib", "typescript">>

\* Mutant: `if (props.bundler !== 'rollup')` in place of the test for webpack
BundlerDevDependencies_UnlessRollup(p) ==
    IF ~(Has(p, "bundler") /\ p.bundler = "rollup")
    THEN Strs(WebpackDevDependencies)
         \o (IF Has(p, "language") /\ p.language = "coffeescript"
             THEN <<Str("coffee-loader")>> ELSE <<>>)
    ELSE Strs(RollupDevDependencies)
         \o (IF Has(p, "language") /\ p.language = "coffeescript"
             THEN <<Str("rollup-plugin-coffee-script")>> ELSE <<>>)
         \o (IF Has(p, "language") /\ p.language = "typescript"
             THEN <<Str("@rollup/plugin-typescript")>> ELSE <<>>)

\* lines 84-107: the bundler's packages and its plugin or loader for the language
BundlerDevDependencies(p) ==
    IF Has(p, "bundler") /\ p.bundler = "webpack"
    THEN Strs(WebpackDevDependencies)
         \o (IF Has(p, "language") /\ p.language = "coffeescript"
             THEN <<Str("coffee-loader")>> ELSE <<>>)
    ELSE IF Has(p, "bundler") /\ p.bundler = "rollup"
    THEN Strs(RollupDevDependencies)
         \o (IF Has(p, "language") /\ p.language = "coffeescript"
             THEN <<Str("rollup-plugin-coffee-script")>> ELSE <<>>)
         \o (IF Has(p, "language") /\ p.language = "typescript"
             THEN <<Str("@rollup/plugin-typescript")>> ELSE <<>>)
    ELSE <<>>

\* lines 109-111: the array of additional dependencies is pushed as ONE element
AdditionalDevDependencies(p) ==
    IF Has(p, "additionalDependencies") /\ Len(p.additionalDependencies) > 0
    THEN <<Arr(p.additionalDependencies)>>
    ELSE <<>>

\* Mutant: the loaders are pushed without the test for webpack
LanguageDevDependencies_LoaderAlways(p) ==
    IF ~Has(p, "language") THEN <<>>
    ELSE IF p.language = "coffeescript" THEN Strs(CoffeescriptDevDependencies)
    ELSE IF p.language = "javascript"
    THEN Strs(JavascriptDevDependencies(p))
         \o <<Str("babel-loader")>>
         \o (IF Has(p, "babelPresets") /\ Len(p.babelPresets) > 0
             THEN <<Arr(p.babelPresets)>> ELSE <<>>)
    ELSE IF p.language = "typescript"
    THEN Strs(TypescriptDevDependencies(p)) \o <<Str("ts-loader")>>
    ELSE <<>>

\* lines 113-164: the switch on props.language
LanguageDevDependencies(p) ==
    IF ~Has(p, "language") THEN <<>>
    ELSE IF p.language = "coffeescript" THEN Strs(CoffeescriptDevDependencies)
    ELSE IF p.language = "javascript"
    THEN Strs(JavascriptDevDependencies(p))
         \o (IF Has(p, "bundler") /\ p.bundler = "webpack"
             THEN <<Str("babel-loader")>> ELSE <<>>)
         \o (IF Has(p, "babelPresets") /\ Len(p.babelPresets) > 0
             THEN <<Arr(p.babelPresets)>> ELSE <<>>)
    ELSE IF p.language = "typescript"
    THEN Strs(TypescriptDevDependencies(p))
         \o (IF Has(p, "bundler") /\ p.bundler = "webpack"
             THEN <<Str("ts-loader")>> ELSE <<>>)
    ELSE <<>>

\* lines 166-171
StylesDevDependencies(p) ==
    IF Includes(p, "styles")
    THEN <<Str("stylelint"),
           Str("stylelint-config-" \o Template(p, "stylelintConfig"))>>
    ELSE <<>>

\* Mutant: devDependencies is a module-level array, so a call pushes onto
\* what an earlier call left in it
getDependencies_SharedList(p) ==
    Return([dependencies |-> Sort(<<>>),
            devDependencies |->
                Sort((IF earlier.kind = "kept" /\ earlier.call = "getDependencies"
                      THEN earlier.ret.value.devDependencies
                      ELSE Strs(BaselineDevDependencies))
                     \o BundlerDevDependencies(p)
                     \o AdditionalDevDependencies(p)
                     \o LanguageDevDependencies(p)
                     \o StylesDevDependencies(p))])

\* The pair [dependencies.sort(), devDependencies.sort()]
getDependencies(p) ==
    Return([dependencies |-> Sort(<<>>),
            devDependencies |->
                Sort(Strs(BaselineDevDependencies)
                     \o BundlerDevDependencies(p)
                     \o AdditionalDevDependencies(p)
                     \o LanguageDevDependencies(p)
                     \o StylesDevDependencies(p))])

----------------------------------------------------------------------------
(* getLanguageExtension *)

LowerCaseOf ==
    ("A" :> "a") @@ ("B" :> "b") @@ ("C" :> "c") @@ ("D" :> "d") @@ ("E" :> "e") @@
    ("F" :> "f") @@ ("G" :> "g") @@ ("H" :> "h") @@ ("I" :> "i") @@ ("J" :> "j") @@
    ("K" :> "k") @@ ("L" :> "l") @@ ("M" :> "m") @@ ("N" :> "n") @@ ("O" :> "o") @@
    ("P" :> "p") @@ ("Q" :> "q") @@ ("R" :> "r") @@ ("S" :> "s") @@ ("T" :> "t") @@
    ("U" :> "u") @@ ("V" :> "v") @@ ("W" :> "w") @@ ("X" :> "x") @@ ("Y" :> "y") @@
    ("Z" :> "z")

\* String.prototype.toLowerCase
RECURSIVE ToLowerCaseFrom(_, _)
ToLowerCaseFrom(s, i) ==
    IF i > Len(s) THEN ""
    ELSE LET c == CharAt(s, i)
         IN  (IF c \in DOMAIN LowerCaseOf THEN LowerCaseOf[c] ELSE c)
             \o ToLowerCaseFrom(s, i + 1)

ToLowerCase(s) == ToLowerCaseFrom(s, 1)

TypeError == "TypeError: Cannot read properties of undefined"
UnsupportedLanguage == "Unsupported language selected"
UnsupportedBundler(p) == "Unsupported bundler '" \o Template(p, "bundler") \o "'"

\* selectedLanguage is Str(s) or Undefined; undefined.toLowerCase() is a TypeError
getLanguageExtension(selectedLanguage) ==
    IF IsUndefined(selectedLanguage) THEN Throw(TypeError)
    ELSE LET lower == ToLowerCase(selectedLanguage.str)
         IN  IF lower = "typescript" THEN Return("ts")
             ELSE IF lower = "javascript" THEN Return("js")
             ELSE IF lower = "coffeescript" THEN Return("coffee")
             ELSE Throw(UnsupportedLanguage)

----------------------------------------------------------------------------
(* path: the functions of Node's posix path module that the helpers call *)

IsAbsolute(path) == Len(path) > 0 /\ CharAt(path, 1) = "/"

\* Array.prototype.join(separator) of an array of strings
RECURSIVE JoinWith(_, _, _)
JoinWith(xs, separator, i) ==
    IF i > Len(xs) THEN ""
    ELSE IF i = Len(xs) THEN xs[i]
    ELSE xs[i] \o separator \o JoinWith(xs, separator, i + 1)

\* normalizeString: empty and '.' segments are dropped, a '..' takes back the
\* segment before it (above the root of an absolute path there is nothing)
RECURSIVE NormalizeFrom(_, _, _, _)
NormalizeFrom(segments, i, kept, absolute) ==
    IF i > Len(segments) THEN kept
    ELSE LET segment == segments[i]
         IN  IF segment = "" \/ segment = "."
             THEN NormalizeFrom(segments, i + 1, kept, absolute)
             ELSE IF segment # ".."
             THEN NormalizeFrom(segments, i + 1, Append(kept, segment), absolute)
             ELSE IF Len(kept) > 0 /\ kept[Len(kept)] # ".."
             THEN NormalizeFrom(segments, i + 1, SubSeq(kept, 1, Len(kept) - 1),
                                absolute)
             ELSE IF absolute
             THEN NormalizeFrom(segments, i + 1, kept, absolute)
             ELSE NormalizeFrom(segments, i + 1, Append(kept, ".."), absolute)

\* path.normalize
Normalize(path) ==
    IF path = "" THEN "."
    ELSE LET absolute == IsAbsolute(path)
             trailing == CharAt(path, Len(path)) = "/"
             inner == JoinWith(NormalizeFrom(Split(path, "/"), 1, <<>>, absolute),
                               "/", 1)
         IN  IF inner = ""
             THEN (IF absolute THEN "/" ELSE IF trailing THEN "./" ELSE ".")
             ELSE (IF absolute THEN "/" ELSE "") \o inner
                  \o (IF trailing THEN "/" ELSE "")

NonEmpty(path) == path # ""

\* path.join(...paths)
Join(paths) ==
    LET given == SelectSeq(paths, NonEmpty)
    IN  IF Len(given) = 0 THEN "." ELSE Normalize(JoinWith(given, "/", 1))

\* process.cwd()
cwd == "/home/octocat/hello"

\* path.resolve(...paths): the paths from the last absolute one on (from the
\* working directory when none is), normalized, without a trailing slash
Resolve(paths) ==
    LET absolutes == {i \in 1..Len(paths) : IsAbsolute(paths[i])}
        from == IF absolutes = {} THEN <<cwd>> \o paths
                ELSE SubSeq(paths,
                            CHOOSE i \in absolutes : \A j \in absolutes : i >= j,
                            Len(paths))
        joined == JoinWith(SelectSeq(from, NonEmpty), "/", 1)
    IN  "/" \o JoinWith(NormalizeFrom(Split(joined, "/"), 1, <<>>, TRUE), "/", 1)

\* The last segment of a path, trailing slashes ignored
LastSegment(path) ==
    LET inked == {i \in 1..Len(path) : CharAt(path, i) # "/"}
    IN  IF inked = {} THEN ""
        ELSE LET end == CHOOSE i \in inked : \A j \in inked : i >= j
                 slashes == {i \in 1..end : CharAt(path, i) = "/"}
                 start == IF slashes = {} THEN 1
                          ELSE (CHOOSE i \in slashes : \A j \in slashes : i >= j) + 1
             IN  SubSeq(path, start, end)

\* path.dirname
Dirname(path) ==
    LET ends == {i \in 2..Len(path) :
                    /\ CharAt(path, i) = "/"
                    /\ \E j \in (i + 1)..Len(path) : CharAt(path, j) # "/"}
    IN  IF ends = {} THEN (IF IsAbsolute(path) THEN "/" ELSE ".")
        ELSE LET end == CHOOSE i \in ends : \A j \in ends : i >= j
             IN  IF IsAbsolute(path) /\ end = 2 THEN "//"
                 ELSE SubSeq(path, 1, end - 1)

\* path.extname: from the last dot of the last segment on; a segment that
\* has no dot, or only its first character is one, has no extension
Extname(path) ==
    LET base == LastSegment(path)
        dots == {i \in 1..Len(base) : CharAt(base, i) = "."}
    IN  IF dots = {} \/ base = ".." THEN ""
        ELSE LET dot == CHOOSE i \in dots : \A j \in dots : i >= j
             IN  IF dot = 1 THEN "" ELSE SubSeq(base, dot, Len(base))

\* path.basename(path, ext)
Basename(path, ext) ==
    LET base == LastSegment(path)
    IN  IF ext # "" /\ ext = path THEN ""
        ELSE IF ext # "" /\ Len(base) > Len(ext) /\ EndsWith(base, ext)
        THEN SubSeq(base, 1, Len(base) - Len(ext))
        ELSE base

----------------------------------------------------------------------------
(* getTemplatePath, getDestinationPath *)

\* pkgDir(__dirname): the directory of the generator package
rootDir == "/usr/lib/node_modules/generator-atom"

\* fs.access(filePath, F_OK) succeeds
fileExists(path) == path \in templates

TemplateNotFound(path) == "No template file found for " \o path

\* selectedLanguage is Str(s) or Undefined; path.resolve throws a TypeError
\* for an argument that is not a string
getTemplatePath(path, selectedLanguage) ==
    IF IsUndefined(selectedLanguage) THEN Throw(TypeError)
    ELSE LET languagePath == Resolve(<<rootDir, "generators/app/templates",
                                       selectedLanguage.str, path>>)
             sharedPath == Resolve(<<rootDir, "generators/app/templates",
                                     "shared", path>>)
         IN  IF fileExists(languagePath)
             THEN Return(Join(<<selectedLanguage.str, path>>))
             ELSE IF fileExists(sharedPath)
             THEN Return(Join(<<sharedPath, path>>))
             ELSE Throw(TemplateNotFound(path))

\* Mutant: basename is called without the extension to take off
getDestinationPath_KeepsExtension(path, selectedLanguage) ==
    LET dirName == Dirname(path)
        baseName == Basename(path, "")
    IN  IF IsUndefined(selectedLanguage) THEN Throw(TypeError)
        ELSE LET lower == ToLowerCase(selectedLanguage.str)
             IN  IF lower = "typescript"
                 THEN Return(dirName \o "/" \o baseName \o ".ts")
                 ELSE IF lower = "javascript"
                 THEN Return(dirName \o "/" \o baseName \o ".js")
                 ELSE IF lower = "coffeescript"
                 THEN Return(dirName \o "/" \o baseName \o ".coffee")
                 ELSE Throw(UnsupportedLanguage)

getDestinationPath(path, selectedLanguage) ==
    LET dirName == Dirname(path)
        extName == Extname(path)
        baseName == Basename(path, extName)
    IN  IF IsUndefined(selectedLanguage) THEN Throw(TypeError)
        ELSE LET lower == ToLowerCase(selectedLanguage.str)
             IN  IF lower = "typescript"
                 THEN Return(dirName \o "/" \o baseName \o ".ts")
                 ELSE IF lower = "javascript"
                 THEN Return(dirName \o "/" \o baseName \o ".js")
                 ELSE IF lower = "coffeescript"
                 THEN Return(dirName \o "/" \o baseName \o ".coffee")
                 ELSE Throw(UnsupportedLanguage)

----------------------------------------------------------------------------
(* getActivationHooks *)

RootScopeUsedSuffix == ":root-scope-used"
GrammarUsedSuffix == ":grammar-used"

\* Mutant: the suffixes are appended without the endsWith tests
ActivationHook_AlwaysAppends(p, hook) ==
    IF hook = "core:loaded-shell-environment" THEN Return(Str(hook))
    ELSE IF hook = "root-scope-used"
    THEN IF ~Has(p, "rootScopeUsed") THEN Throw(TypeError)
         ELSE Return(Str(p.rootScopeUsed \o RootScopeUsedSuffix))
    ELSE IF hook = "grammar-used"
    THEN IF ~Has(p, "grammarUsed") THEN Throw(TypeError)
         ELSE Return(Str(p.grammarUsed \o GrammarUsedSuffix))
    ELSE Return(Undefined)

\* The callback of props.activationHooks.map: the value emitted for one hook
ActivationHook(p, hook) ==
    IF hook = "core:loaded-shell-environment" THEN Return(Str(hook))
    ELSE IF hook = "root-scope-used"
    THEN IF ~Has(p, "rootScopeUsed") THEN Throw(TypeError)
         ELSE IF EndsWith(p.rootScopeUsed, RootScopeUsedSuffix)
         THEN Return(Str(p.rootScopeUsed))
         ELSE Return(Str(p.rootScopeUsed \o RootScopeUsedSuffix))
    ELSE IF hook = "grammar-used"
    THEN IF ~Has(p, "grammarUsed") THEN Throw(TypeError)
         \* line 207 tests the root scope suffix
         ELSE IF EndsWith(p.grammarUsed, RootScopeUsedSuffix)
         THEN Return(Str(p.grammarUsed))
         ELSE Return(Str(p.grammarUsed \o GrammarUsedSuffix))
    ELSE Return(Undefined)

getActivationHooks(p) ==
    IF ~Has(p, "activationHooks") THEN Throw(TypeError)
    ELSE LET hooks == p.activationHooks
             thrown == {i \in 1..Len(hooks) :
                           ActivationHook(p, hooks[i]).kind = "throw"}
         IN  IF thrown # {}
             THEN ActivationHook(p, hooks[CHOOSE i \in thrown :
                                              \A j \in thrown : i <= j])
             ELSE Return([i \in 1..Len(hooks) |->
                              ActivationHook(p, hooks[i]).value])

----------------------------------------------------------------------------
(* getWatchScript, getBuildScript *)

\* Mutant: the default case falls back to rollup instead of throwing
getWatchScript_DefaultRollup(p) ==
    IF ~Includes(p, "code") THEN Return("echo \"Nothing to watch\"")
    ELSE IF Has(p, "bundler") /\ p.bundler = "webpack"
    THEN Return("webpack --watch --mode none")
    ELSE Return("rollup --watch --config")

getWatchScript(p) ==
    IF ~Includes(p, "code") THEN Return("echo \"Nothing to watch\"")
    ELSE IF Has(p, "bundler") /\ p.bundler = "webpack"
    THEN Return("webpack --watch --mode none")
    ELSE IF Has(p, "bundler") /\ p.bundler = "rollup"
    THEN Return("rollup --watch --config")
    ELSE Throw(UnsupportedBundler(p))

\* Mutant: the test for the 'code' feature is missing
getBuildScript_IgnoresFeatures(p) ==
    IF Has(p, "bundler") /\ p.bundler = "webpack"
    THEN Return("webpack --mode production")
    ELSE IF Has(p, "bundler") /\ p.bundler = "rollup"
    THEN Return("rollup --config")
    ELSE Throw(UnsupportedBundler(p))

getBuildScript(p) ==
    IF ~Includes(p, "code") THEN Return("echo \"Nothing to build\"")
    ELSE IF Has(p, "bundler") /\ p.bundler = "webpack"
    THEN Return("webpack --mode production")
    ELSE IF Has(p, "bundler") /\ p.bundler = "rollup"
    THEN Return("rollup --config")
    ELSE Throw(UnsupportedBundler(p))

----------------------------------------------------------------------------
(* getLintStaged *)

\* lintStagedTasks[key] = command
SetTask(tasks, key, command) ==
    [k \in DOMAIN tasks \cup {key} |-> IF k = key THEN command ELSE tasks[k]]

\* lines 417-432: languageExt stays undefined when no case matches
LintStagedLanguageExt(p) ==
    IF Has(p, "language") /\ p.language = "coffeescript" THEN "coffee"
    ELSE IF Has(p, "language") /\ p.language = "javascript" THEN "js"
    ELSE IF Has(p, "language") /\ p.language = "typescript" THEN "ts"
    ELSE "undefined"

\* Mutant: the entry for the code extension replaces the formatter entry
getLintStaged_CodeOverFormatter(p) ==
    LET fixed == ("*.json" :> "jsonlint --quiet")
                 @@ ("*.{ts,md,yml}" :> "prettierx --write")
        withCode ==
            IF Includes(p, "code")
            THEN ("*.json" :> "jsonlint --quiet")
                 @@ (("*." \o LintStagedLanguageExt(p)) :>
                        (IF Has(p, "language") /\ p.language = "coffeescript"
                         THEN "coffeelint ./src"
                         ELSE "eslint --cache --fix"))
            ELSE fixed
    IN  IF Includes(p, "styles")
        THEN SetTask(withCode, "*.(c|le)ss", "stylelint --fix")
        ELSE withCode

getLintStaged(p) ==
    LET fixed == ("*.json" :> "jsonlint --quiet")
                 @@ ("*.{ts,md,yml}" :> "prettierx --write")
        withCode ==
            IF Includes(p, "code")
            THEN SetTask(fixed, "*." \o LintStagedLanguageExt(p),
                         IF Has(p, "language") /\ p.language = "coffeescript"
                         THEN "coffeelint ./src"
                         ELSE "eslint --cache --fix")
            ELSE fixed
    IN  IF Includes(p, "styles")
        THEN SetTask(withCode, "*.(c|le)ss", "stylelint --fix")
        ELSE withCode

----------------------------------------------------------------------------
(* composeManifest *)

Bool(b) == [bool |-> b]

\* scripts['lint:code'], lines 268-273
LintCodeScript(p, fileExtension) ==
    IF Includes(p, "code")
    THEN IF Has(p, "language") /\ p.language = "coffeescript"
         THEN "coffeelint ./src"
         ELSE "eslint --ignore-path .gitignore --no-error-on-unmatched-pattern ./src/**/*."
              \o fileExtension
    ELSE "echo \"Nothing to lint\""

ManifestScripts(p, fileExtension, build, start) ==
    ("analyze" :> (IF Includes(p, "code")
                   THEN "source-map-explorer lib/**/*.js"
                   ELSE "echo \"Nothing to analyze\""))
    @@ ("build" :> build)
    @@ ("dev" :> "npm run start")
    @@ ("lint:code" :> LintCodeScript(p, fileExtension))
    @@ ("lint:styles" :> (IF Includes(p, "styles")
                          THEN "stylelint --allow-empty-input styles/*.{css,less}"
                          ELSE "echo \"Nothing to lint\""))
    @@ ("lint" :> "npm-run-all --parallel lint:*")
    @@ ("postinstall" :> "husky install")
    @@ ("prepublishOnly" :> "npm run build")
    @@ ("start" :> start)
    @@ ("test" :> (IF Includes(p, "code")
                   THEN "echo 'Error: no test specified' && exit 1"
                   ELSE "echo \"Nothing to test\""))

\* The object literal of lines 255-317, its calls already evaluated
Manifest(p, fileExtension, build, start, hooks) ==
    ("name" :> Prop(p, "name"))
    @@ ("version" :> "0.0.0")
    @@ ("description" :> Prop(p, "description"))
    @@ ("license" :> Prop(p, "license"))
    @@ ("private" :> (IF Has(p, "private") THEN Bool(p.private) ELSE Undefined))
    @@ ("main" :> (IF Includes(p, "code") THEN Str("./lib/main") ELSE Bool(FALSE)))
    @@ ("scripts" :> ManifestScripts(p, fileExtension, build, start))
    @@ ("keywords" :> <<>>)
    @@ ("repository" :>
            [type |-> "git",
             url |-> "https://github.com/" \o Template(p, "author") \o "/"
                     \o Template(p, "repositoryName")])
    @@ ("homepage" :> "https://atom.io/packages/" \o Template(p, "name"))
    @@ ("bugs" :>
            [url |-> "https://github.com/" \o Template(p, "author") \o "/"
                     \o Template(p, "repositoryName") \o "/issues"])
    @@ ("engines" :> [atom |-> ">=1.0.0 <2.0.0"])
    @@ ("activationCommands" :>
            ("atom-workspace" :>
                <<IF /\ Includes(p, "code")
                     /\ Has(p, "activationCommands")
                     /\ p.activationCommands
                  THEN Str(Template(p, "name") \o ":hello-world")
                  ELSE Undefined>>))
    @@ ("activationHooks" :> hooks)
    @@ ("workspaceOpeners" :>
            (IF Includes(p, "code") THEN Prop(p, "workspaceOpenerURIs")
             ELSE Arr(<<>>)))
    @@ ("package-deps" :>
            (IF Includes(p, "code")
             THEN (IF Has(p, "atomDependencies") THEN Arr(p.atomDependencies)
                   ELSE Undefined)
             ELSE Arr(<<>>)))
    @@ ("dependencies" :> <<>>)
    @@ ("devDependencies" :> <<>>)
    @@ ("lint-staged" :> getLintStaged(p))

\* The calls are made in the order of the source: getLanguageExtension,
\* getBuildScript, getWatchScript, getActivationHooks; the first one that
\* throws ends composeManifest with its error
composeManifest(p) ==
    LET fileExtension == IF Includes(p, "code")
                         THEN getLanguageExtension(Prop(p, "language"))
                         ELSE Return("")
        build == getBuildScript(p)
        start == getWatchScript(p)
        hooks == IF Includes(p, "code") THEN getActivationHooks(p)
                 ELSE Return(<<>>)
    IN  IF fileExtension.kind = "throw" THEN fileExtension
        ELSE IF build.kind = "throw" THEN build
        ELSE IF start.kind = "throw" THEN start
        ELSE IF hooks.kind = "throw" THEN hooks
        ELSE Return(Manifest(p, fileExtension.value, build.value, start.value,
                             hooks.value))

----------------------------------------------------------------------------
(* composeBabel *)

composeBabel(p) ==
    LET babelPresets == IF Has(p, "babelPresets") /\ Len(p.babelPresets) > 0
                        THEN p.babelPresets
                        ELSE <<>>
    IN  Return([plugins |-> <<"@babel/plugin-proposal-export-namespace-from">>,
                presets |->
                    <<[preset |-> "@babel/preset-env",
                       options |-> [targets |-> [electron |-> "2.0.0"],
                                    corejs |-> "3",
                                    useBuiltIns |-> "entry"]]>>
                    \o Strs(babelPresets)])

----------------------------------------------------------------------------
(* getPrettierConfig *)

\* Mutant: the case 'standard' also carries the default label
getPrettierConfig_DefaultStandard(eslintConfig) ==
    IF eslintConfig = Str("airbnb")
    THEN Return([arrowParens |-> "always", bracketSpacing |-> FALSE,
                 quoteProps |-> "as-needed", semi |-> TRUE, singleQuote |-> TRUE,
                 tabWidth |-> 2, trailingComma |-> "all", useTabs |-> FALSE])
    ELSE IF eslintConfig = Str("google")
    THEN Return([arrowParens |-> "always", bracketSpacing |-> FALSE,
                 quoteProps |-> "consistent", semi |-> FALSE, singleQuote |-> TRUE,
                 tabWidth |-> 2, useTabs |-> FALSE])
    ELSE IF eslintConfig = Str("idiomatic")
    THEN Return([arrowParens |-> "always", bracketSpacing |-> TRUE,
                 singleQuote |-> TRUE, tabWidth |-> 2, useTabs |-> FALSE])
    ELSE IF eslintConfig = Str("semi")
    THEN Return([bracketSpacing |-> FALSE, semi |-> TRUE, singleQuote |-> TRUE,
                 tabWidth |-> 2, useTabs |-> FALSE])
    ELSE IF eslintConfig = Str("xo")
    THEN Return([arrowParens |-> "as-needed", bracketSpacing |-> FALSE,
                 semi |-> TRUE, singleQuote |-> FALSE, tabWidth |-> 2,
                 useTabs |-> TRUE])
    ELSE Return([bracketSpacing |-> FALSE, semi |-> FALSE, singleQuote |-> TRUE,
                 tabWidth |-> 2, useTabs |-> FALSE])

\* eslintConfig is Str(s) or Undefined; a switch without a matching case
\* returns undefined
getPrettierConfig(eslintConfig) ==
    IF eslintConfig = Str("airbnb")
    THEN Return([arrowParens |-> "always", bracketSpacing |-> FALSE,
                 quoteProps |-> "as-needed", semi |-> TRUE, singleQuote |-> TRUE,
                 tabWidth |-> 2, trailingComma |-> "all", useTabs |-> FALSE])
    ELSE IF eslintConfig = Str("google")
    THEN Return([arrowParens |-> "always", bracketSpacing |-> FALSE,
                 quoteProps |-> "consistent", semi |-> FALSE, singleQuote |-> TRUE,
                 tabWidth |-> 2, useTabs |-> FALSE])
    ELSE IF eslintConfig = Str("idiomatic")
    THEN Return([arrowParens |-> "always", bracketSpacing |-> TRUE,
                 singleQuote |-> TRUE, tabWidth |-> 2, useTabs |-> FALSE])
    ELSE IF eslintConfig = Str("standard")
    THEN Return([bracketSpacing |-> FALSE, semi |-> FALSE, singleQuote |-> TRUE,
                 tabWidth |-> 2, useTabs |-> FALSE])
    ELSE IF eslintConfig = Str("semi")
    THEN Return([bracketSpacing |-> FALSE, semi |-> TRUE, singleQuote |-> TRUE,
                 tabWidth |-> 2, useTabs |-> FALSE])
    ELSE IF eslintConfig = Str("xo")
    THEN Return([arrowParens |-> "as-needed", bracketSpacing |-> FALSE,
                 semi |-> TRUE, singleQuote |-> FALSE, tabWidth |-> 2,
                 useTabs |-> TRUE])
    ELSE Return(Undefined)

----------------------------------------------------------------------------
(* Answer records *)

NoFields == [f \in {} |-> f]

\* field f with each value of vs
Field(f, vs) == {f :> v : v \in vs}

\* field f unset, or with each value of vs
Optional(f, vs) == {NoFields} \cup Field(f, vs)

\* Answers every record has; repositoryName as lines 529-531 derive it
Identity ==
    [name |-> "hello", description |-> "", author |-> "octocat",
     license |-> "MIT", private |-> FALSE, repositoryName |-> "atom-hello"]

FeatureChoices ==
    {{}, {"grammars"}, {"styles"}, {"code"}, {"code", "styles"},
     {"code", "keymaps", "styles"}}

\* The three choices of the prompt, a spelling that differs in letter case
\* only, and a language that is none of them
Languages == {"coffeescript", "javascript", "typescript", "TypeScript", "python"}

\* The two choices of the prompt and a bundler that is none of them
Bundlers == {"rollup", "webpack", "grunt"}

\* Choices of the prompt, the keys of getPrettierConfig, and neither
EslintConfigs ==
    {"airbnb", "google", "idiomatic", "standard", "semi", "xo", "semistandard",
     "eslint"}

AdditionalDependencyChoices ==
    {<<>>, <<"@atxm/metrics">>, <<"@atxm/developer-console", "@atxm/metrics">>}

BabelPresetChoices ==
    {<<>>, <<"@babel/preset-flow">>,
     <<"@babel/preset-flow", "@babel/preset-react">>}

ActivationHookChoices ==
    {<<>>, <<"core:loaded-shell-environment">>, <<"root-scope-used">>,
     <<"grammar-used">>,
     <<"core:loaded-shell-environment", "root-scope-used", "grammar-used">>}

\* What a user may type for a scope: bare, or already carrying a suffix
ScopeAnswers ==
    {"source.js", "source.js:root-scope-used", "source.js:grammar-used"}

\* features, language, bundler; stylelintConfig is asked iff styles is selected
CoreAnswers ==
    UNION {
        {[features |-> fs] @@ l @@ b @@ s :
            l \in Optional("language", Languages),
            b \in Optional("bundler", Bundlers),
            s \in IF "styles" \in fs
                  THEN Field("stylelintConfig", {"standard"})
                  ELSE {NoFields}} :
        fs \in FeatureChoices}

\* rootScopeUsed and grammarUsed are asked iff their hook is selected
HookAnswers ==
    UNION {
        {[activationHooks |-> hooks] @@ r @@ g :
            r \in IF \E i \in 1..Len(hooks) : hooks[i] = "root-scope-used"
                  THEN Field("rootScopeUsed", ScopeAnswers) ELSE {NoFields},
            g \in IF \E i \in 1..Len(hooks) : hooks[i] = "grammar-used"
                  THEN Field("grammarUsed", ScopeAnswers) ELSE {NoFields}} :
        hooks \in ActivationHookChoices}

\* Records that vary the answers getDependencies, composeBabel and
\* getPrettierConfig read
DependencyRecords ==
    UNION {
        {Identity @@ core @@ e @@ a @@ b
            @@ [activationCommands |-> TRUE, activationHooks |-> <<>>] :
            e \in Optional("eslintConfig", EslintConfigs),
            a \in Optional("additionalDependencies",
                           AdditionalDependencyChoices),
            b \in IF Has(core, "language") /\ core.language = "javascript"
                  THEN Optional("babelPresets", BabelPresetChoices)
                  ELSE {NoFields}} :
        core \in CoreAnswers}

\* Records that vary the answers only composeManifest reads; the package
\* dependencies are as lines 536-539 leave them
ManifestRecords ==
    {Identity @@ core @@ c @@ h @@ d @@ [eslintConfig |-> "standard"] :
        core \in CoreAnswers,
        c \in Optional("activationCommands", BOOLEAN),
        h \in HookAnswers,
        d \in {NoFields,
               [atomDependencies |-> <<"linter", " busy-signal">>,
                workspaceOpenerURIs |-> "atom://hello"]}}

AnswerRecords == DependencyRecords \cup ManifestRecords

----------------------------------------------------------------------------
(* The calls *)

\* The record kept in `earlier` notes whether a call on another record
\* has happened since
Observed ==
    IF earlier.kind = "none" THEN earlier
    ELSE [earlier EXCEPT !.interleaved = @ \/ props # earlier.props]

\* No generator is running and no path helper has been called
NoRun ==
    /\ filePath = ""
    /\ templates = {}
    /\ env = NoFields
    /\ pc = "idle"
    /\ asked = 0
    /\ effects = <<>>

Init ==
    /\ props \in AnswerRecords
    /\ call = "none"
    /\ ret = NoCall
    /\ earlier = NoCall
    /\ NoRun

CallGetDependencies ==
    /\ call = "none"
    /\ call' = "getDependencies"
    /\ ret' = getDependencies(props)
    /\ props' = props
    /\ earlier' = Observed
    /\ UNCHANGED <<filePath, generator>>

CallComposeManifest ==
    /\ call = "none"
    /\ call' = "composeManifest"
    /\ ret' = composeManifest(props)
    /\ props' = props
    /\ earlier' = Observed
    /\ UNCHANGED <<filePath, generator>>

CallComposeBabel ==
    /\ call = "none"
    /\ call' = "composeBabel"
    /\ ret' = composeBabel(props)
    /\ props' = props
    /\ earlier' = Observed
    /\ UNCHANGED <<filePath, generator>>

\* copyPrettyTpl passes props.eslintConfig
CallGetPrettierConfig ==
    /\ call = "none"
    /\ call' = "getPrettierConfig"
    /\ ret' = getPrettierConfig(Prop(props, "eslintConfig"))
    /\ props' = props
    /\ earlier' = Observed
    /\ UNCHANGED <<filePath, generator>>

Next ==
    \/ CallGetDependencies
    \/ CallComposeManifest
    \/ CallComposeBabel
    \/ CallGetPrettierConfig

Spec == Init /\ [][Next]_vars

----------------------------------------------------------------------------
(* Vocabulary of the properties *)

Range(xs) == {xs[i] : i \in 1..Len(xs)}

\* The package names that are elements of a dependency list themselves
Names(list) == {list[i].str : i \in {j \in 1..Len(list) : IsStr(list[j])}}

StartsWith(s, prefix) ==
    Len(s) >= Len(prefix) /\ SubSeq(s, 1, Len(prefix)) = prefix

Returned(helper) == call = helper /\ ret.kind = "return"

\* Packages that only a bundler or a language adds
BundlerPackages ==
    Range(WebpackDevDependencies) \cup Range(RollupDevDependencies)
    \cup {"coffee-loader", "babel-loader", "ts-loader",
          "rollup-plugin-coffee-script", "@rollup/plugin-typescript"}

LanguagePackages ==
    {"coffeelint@2", "coffeescript@2", "@babel/core", "@babel/eslint-parser",
     "@babel/plugin-proposal-export-namespace-from", "@babel/preset-env",
     "core-js@3", "eslint-plugin-json", "eslint-plugin-node", "eslint",
     "@types/atom", "@types/node", "@typescript-eslint/eslint-plugin",
     "@typescript-eslint/parser", "tslib", "typescript"}

----------------------------------------------------------------------------
(* C1 *)

NoCodeAnswers ==
    /\ ~Includes(props, "code")
    /\ ~Has(props, "language")
    /\ ~Has(props, "bundler")

\* C1: for a record without 'code' (language and bundler unset) the dev list
\* of getDependencies holds no bundler package and no language package: each
\* element is a baseline package, a style package (only with 'styles'), or
\* the additional dependencies of the record.
C1_NoCodeOnlyTooling ==
    (call = "getDependencies" /\ NoCodeAnswers) =>
        /\ ret.kind = "return"
        /\ LET dev == ret.value.devDependencies
           IN  /\ Names(dev) \cap (BundlerPackages \cup LanguagePackages) = {}
               /\ \A n \in Names(dev) : ~StartsWith(n, "eslint-config-")
               /\ \A i \in 1..Len(dev) :
                     \/ /\ IsStr(dev[i])
                        /\ dev[i].str \in Range(BaselineDevDependencies)
                     \/ /\ IsStr(dev[i])
                        /\ Includes(props, "styles")
                        /\ dev[i].str \in
                               {"stylelint",
                                "stylelint-config-" \o props.stylelintConfig}
                     \/ /\ IsArr(dev[i])
                        /\ Has(props, "additionalDependencies")
                        /\ dev[i].arr = props.additionalDependencies

C1_Witness ==
    /\ Returned("getDependencies")
    /\ NoCodeAnswers
    /\ Includes(props, "styles")
    /\ Has(props, "additionalDependencies")
    /\ Len(props.additionalDependencies) > 0
    /\ Len(ret.value.devDependencies) > Len(BaselineDevDependencies)

----------------------------------------------------------------------------
(* C2 *)

\* C2: for a record without 'code', composeManifest returns, whatever bundler
\* and language are, and the build, start, lint:code and test scripts are the
\* no-op echo messages.
C2_NoCodeScriptsAreNoOps ==
    (call = "composeManifest" /\ ~Includes(props, "code")) =>
        /\ ret.kind = "return"
        /\ ret.value.scripts["build"] = "echo \"Nothing to build\""
        /\ ret.value.scripts["start"] = "echo \"Nothing to watch\""
        /\ ret.value.scripts["lint:code"] = "echo \"Nothing to lint\""
        /\ ret.value.scripts["test"] = "echo \"Nothing to test\""

C2_Witness ==
    /\ Returned("composeManifest")
    /\ ~Includes(props, "code")
    /\ Has(props, "bundler") /\ props.bundler = "grunt"
    /\ Has(props, "language") /\ props.language = "python"
    /\ ret.value.scripts["build"] = "echo \"Nothing to build\""

----------------------------------------------------------------------------
(* C3 *)

\* C3: for a record without 'code', activationCommands, activationHooks,
\* workspaceOpeners and package-deps of the manifest hold zero entries (an
\* undefined element is an entry).
C3_NoCodeListsEmpty ==
    (Returned("composeManifest") /\ ~Includes(props, "code")) =>
        /\ Len(ret.value.activationCommands["atom-workspace"]) = 0
        /\ Len(ret.value.activationHooks) = 0
        /\ ret.value.workspaceOpeners = Arr(<<>>)
        /\ ret.value["package-deps"] = Arr(<<>>)

----------------------------------------------------------------------------
(* C4 *)

SortedWithoutRepetition(list) ==
    \A i, j \in 1..Len(list) :
        i < j => StringLess(ElementString(list[i]), ElementString(list[j]))

\* C4: each of the two lists of getDependencies is in non-decreasing lexical
\* order and holds no entry twice.
C4_SortedUnique ==
    Returned("getDependencies") =>
        /\ SortedWithoutRepetition(ret.value.dependencies)
        /\ SortedWithoutRepetition(ret.value.devDependencies)

----------------------------------------------------------------------------
(* C6 *)

CodeWithUnknownBundler ==
    /\ Includes(props, "code")
    /\ ~(Has(props, "bundler") /\ props.bundler \in {"rollup", "webpack"})

\* The languages getLanguageExtension accepts: a known one in any letter case
KnownLanguage ==
    /\ Has(props, "language")
    /\ ToLowerCase(props.language) \in {"coffeescript", "javascript", "typescript"}

\* C6 as stated: with 'code' and a bundler that is neither rollup nor
\* webpack, getBuildScript and getWatchScript raise the unsupported-bundler
\* error and composeManifest raises that error.
C6_UnsupportedBundlerRaised ==
    (call = "composeManifest" /\ CodeWithUnknownBundler) =>
        /\ getBuildScript(props) = Throw(UnsupportedBundler(props))
        /\ getWatchScript(props) = Throw(UnsupportedBundler(props))
        /\ ret = Throw(UnsupportedBundler(props))

\* C6 as amended: getBuildScript and getWatchScript raise the
\* unsupported-bundler error; composeManifest never returns a manifest: it
\* raises that error when the language is a known one, and otherwise the error
\* of the extension lookup that runs before the scripts are composed.
C6_UnsupportedBundlerOrLanguageRaised ==
    (call = "composeManifest" /\ CodeWithUnknownBundler) =>
        /\ getBuildScript(props) = Throw(UnsupportedBundler(props))
        /\ getWatchScript(props) = Throw(UnsupportedBundler(props))
        /\ ret.kind = "throw"
        /\ KnownLanguage => ret = Throw(UnsupportedBundler(props))
        /\ ~KnownLanguage => ret.error \in {UnsupportedLanguage, TypeError}

C6_Witness ==
    /\ call = "composeManifest"
    /\ Includes(props, "code")
    /\ Has(props, "bundler") /\ props.bundler = "grunt"
    /\ Has(props, "language") /\ props.language = "javascript"
    /\ ret = Throw("Unsupported bundler 'grunt'")

----------------------------------------------------------------------------
(* C7 *)

\* C7: the hook emitted for 'root-scope-used' is rootScopeUsed, with
\* ':root-scope-used' appended iff rootScopeUsed does not end with it already;
\* normalizing the emitted value again leaves it unchanged.
C7_RootScopeNormalized ==
    (Returned("composeManifest") /\ Includes(props, "code")) =>
        \A i \in 1..Len(props.activationHooks) :
            props.activationHooks[i] = "root-scope-used" =>
                LET given == props.rootScopeUsed
                    emitted == ret.value.activationHooks[i]
                    again == [props EXCEPT !.rootScopeUsed = emitted.str]
                IN  /\ IsStr(emitted)
                    /\ EndsWith(given, ":root-scope-used") => emitted.str = given
                    /\ ~EndsWith(given, ":root-scope-used") =>
                           emitted.str = given \o ":root-scope-used"
                    /\ given = "source.js" =>
                           emitted.str = "source.js:root-scope-used"
                    /\ ActivationHook(again, "root-scope-used") = Return(emitted)

C7_Witness ==
    /\ Returned("composeManifest")
    /\ Includes(props, "code")
    /\ props.activationHooks = <<"root-scope-used">>
    /\ props.rootScopeUsed = "source.js"
    /\ ret.value.activationHooks = <<Str("source.js:root-scope-used")>>

----------------------------------------------------------------------------
(* C8 *)

\* The formatter options table of the specification, by preset
FormatterOptions ==
    [airbnb |-> [arrowParens |-> "always", bracketSpacing |-> FALSE,
                 quoteProps |-> "as-needed", semi |-> TRUE,
                 singleQuote |-> TRUE, tabWidth |-> 2,
                 trailingComma |-> "all", useTabs |-> FALSE],
     google |-> [arrowParens |-> "always", bracketSpacing |-> FALSE,
                 quoteProps |-> "consistent", semi |-> FALSE,
                 singleQuote |-> TRUE, tabWidth |-> 2, useTabs |-> FALSE],
     idiomatic |-> [arrowParens |-> "always", bracketSpacing |-> TRUE,
                    singleQuote |-> TRUE, tabWidth |-> 2, useTabs |-> FALSE],
     standard |-> [bracketSpacing |-> FALSE, semi |-> FALSE,
                   singleQuote |-> TRUE, tabWidth |-> 2, useTabs |-> FALSE],
     semi |-> [bracketSpacing |-> FALSE, semi |-> TRUE, singleQuote |-> TRUE,
               tabWidth |-> 2, useTabs |-> FALSE],
     xo |-> [arrowParens |-> "as-needed", bracketSpacing |-> FALSE,
             semi |-> TRUE, singleQuote |-> FALSE, tabWidth |-> 2,
             useTabs |-> TRUE]]

\* C8: getPrettierConfig returns exactly the option set of the table for
\* each of its six presets, and undefined for every other preset.
C8_FormatterTable ==
    call = "getPrettierConfig" =>
        IF Has(props, "eslintConfig") /\ props.eslintConfig \in DOMAIN FormatterOptions
        THEN /\ ret = Return(FormatterOptions[props.eslintConfig])
             /\ ("trailingComma" \in DOMAIN ret.value) = (props.eslintConfig = "airbnb")
        ELSE ret = Return(Undefined)

C8_Witness ==
    /\ Returned("getPrettierConfig")
    /\ Has(props, "eslintConfig") /\ props.eslintConfig = "airbnb"
    /\ DOMAIN ret.value =
           {"arrowParens", "bracketSpacing", "quoteProps", "semi", "singleQuote",
            "tabWidth", "trailingComma", "useTabs"}

----------------------------------------------------------------------------
(* C9 *)

LintStagedScenario ==
    /\ {"code", "styles"} \subseteq props.features
    /\ Has(props, "language") /\ props.language = "javascript"
    /\ Has(props, "bundler") /\ props.bundler = "webpack"

\* C9 as stated: in the scenario the lint-staged map of the manifest has
\* exactly three entries: JSON files, '*.js' and the style extension.
C9_ThreeLintStagedEntries ==
    (call = "composeManifest" /\ LintStagedScenario) =>
        /\ ret.kind = "return"
        /\ Cardinality(DOMAIN ret.value["lint-staged"]) = 3
        /\ {"*.json", "*.js", "*.(c|le)ss"} \subseteq DOMAIN ret.value["lint-staged"]

\* C9 as amended: the map has exactly four entries: JSON files, the
\* '*.{ts,md,yml}' entry of the formatter, '*.js' and the style extension.
C9_FourLintStagedEntries ==
    (call = "composeManifest" /\ LintStagedScenario) =>
        /\ ret.kind = "return"
        /\ Cardinality(DOMAIN ret.value["lint-staged"]) = 4
        /\ DOMAIN ret.value["lint-staged"] =
               {"*.json", "*.{ts,md,yml}", "*.js", "*.(c|le)ss"}

C9_Witness ==
    /\ Returned("composeManifest")
    /\ LintStagedScenario
    /\ ret.value["lint-staged"]["*.js"] = "eslint --cache --fix"

----------------------------------------------------------------------------
(* C10 *)

IsRollupPackage(n) ==
    n = "rollup" \/ StartsWith(n, "@rollup/") \/ StartsWith(n, "rollup-plugin-")

IsLoader(n) == EndsWith(n, "-loader")

\* C10: with a valid bundler and language, the plugin or loader of the
\* language is the one of the selected pair: under rollup the typescript
\* plugin iff typescript, the coffee-script plugin iff coffeescript, and no
\* loader; under webpack exactly the loader of the language among
\* coffee-loader, babel-loader and ts-loader, and no rollup package.
C10_PluginMatchesPair ==
    (/\ call = "getDependencies"
     /\ Has(props, "bundler") /\ props.bundler \in {"rollup", "webpack"}
     /\ Has(props, "language")
     /\ props.language \in {"coffeescript", "javascript", "typescript"}) =>
        /\ ret.kind = "return"
        /\ LET names == Names(ret.value.devDependencies)
               loader == [coffeescript |-> "coffee-loader",
                          javascript |-> "babel-loader",
                          typescript |-> "ts-loader"]
           IN  IF props.bundler = "rollup"
               THEN /\ ("@rollup/plugin-typescript" \in names)
                           = (props.language = "typescript")
                    /\ ("rollup-plugin-coffee-script" \in names)
                           = (props.language = "coffeescript")
                    /\ \A n \in names : ~IsLoader(n)
               ELSE /\ names \cap {"coffee-loader", "babel-loader", "ts-loader"}
                           = {loader[props.language]}
                    /\ \A n \in names : ~IsRollupPackage(n)

C10_Witness ==
    /\ Returned("getDependencies")
    /\ Has(props, "bundler") /\ props.bundler = "rollup"
    /\ Has(props, "language") /\ props.language = "typescript"
    /\ "@rollup/plugin-typescript" \in Names(ret.value.devDependencies)
    /\ "rollup-plugin-coffee-script" \notin Names(ret.value.devDependencies)

----------------------------------------------------------------------------
(* Sessions: helpers called again and again on changing records *)

\* A few records of AnswerRecords, with calls that return and calls that throw
SessionRecords ==
    {r \in AnswerRecords :
        /\ r.features \in {{"styles"}, {"code", "styles"}}
        /\ Has(r, "language") /\ r.language = "javascript"
        /\ Has(r, "bundler") /\ r.bundler \in {"webpack", "grunt"}
        /\ Has(r, "eslintConfig") /\ r.eslintConfig \in {"airbnb", "standard"}
        /\ ~Has(r, "babelPresets")
        /\ ~Has(r, "atomDependencies")
        /\ Has(r, "additionalDependencies") => r.additionalDependencies = <<"@atxm/metrics">>
        /\ Has(r, "activationCommands") /\ r.activationCommands
        /\ r.activationHooks \in {<<>>, <<"root-scope-used">>}
        /\ Has(r, "rootScopeUsed") => r.rootScopeUsed = "source.js"}

InitSession ==
    /\ props \in SessionRecords
    /\ call = "none"
    /\ ret = NoCall
    /\ earlier = NoCall
    /\ NoRun

\* The caller holds another record (or the same one again) for its next call
PassRecord ==
    /\ call # "none"
    /\ props' \in SessionRecords
    /\ call' = "none"
    /\ ret' = NoCall
    /\ earlier' = earlier
    /\ UNCHANGED <<filePath, generator>>

\* The call just made is kept for comparison with later ones
KeepCall ==
    /\ call # "none"
    /\ earlier' = [kind |-> "kept", call |-> call, props |-> props, ret |-> ret,
                   interleaved |-> FALSE]
    /\ UNCHANGED <<props, call, ret, filePath, generator>>

NextSession ==
    \/ Next
    \/ PassRecord
    \/ KeepCall

SpecSession == InitSession /\ [][NextSession]_vars

----------------------------------------------------------------------------
(* C5 *)

SameCallAsEarlier ==
    /\ earlier.kind = "kept"
    /\ call = earlier.call
    /\ props = earlier.props

----------------------------------------------------------------------------
(* C11 *)

\* C11: the activationCommands list of the manifest is the single entry
\* '<name>:hello-world' iff 'code' is selected and the activationCommands
\* answer is true; in every other case it holds no element at all, not even
\* an undefined one.
C11_HelloWorldOrNoElement ==
    Returned("composeManifest") =>
        LET list == ret.value.activationCommands["atom-workspace"]
            optedIn == /\ Includes(props, "code")
                       /\ Has(props, "activationCommands")
                       /\ props.activationCommands
        IN  /\ optedIn => list = <<Str(props.name \o ":hello-world")>>
            /\ ~optedIn => list = <<>>
            /\ \A i \in 1..Len(list) : ~IsUndefined(list[i])

----------------------------------------------------------------------------
(* C12 *)

\* C12: the hook emitted for 'grammar-used' ends with ':grammar-used'; the
\* suffix is appended iff grammarUsed does not end with it already, and a
\* grammarUsed that ends with it is emitted unchanged.
C12_GrammarUsedNormalized ==
    (Returned("composeManifest") /\ Includes(props, "code")) =>
        \A i \in 1..Len(props.activationHooks) :
            props.activationHooks[i] = "grammar-used" =>
                LET given == props.grammarUsed
                    emitted == ret.value.activationHooks[i]
                IN  /\ IsStr(emitted)
                    /\ EndsWith(emitted.str, ":grammar-used")
                    /\ EndsWith(given, ":grammar-used") => emitted.str = given
                    /\ ~EndsWith(given, ":grammar-used") =>
                           emitted.str = given \o ":grammar-used"

----------------------------------------------------------------------------
(* C13 *)

NonDecreasing(list) ==
    \A i, j \in 1..Len(list) :
        i < j => ~StringLess(ElementString(list[j]), ElementString(list[i]))

\* C13: the dev list of getDependencies is flat: every element is a package
\* name, each entry of additionalDependencies is an element of its own, so is
\* each entry of babelPresets when the language is javascript, and the
\* elements stand in sorted order.
C13_DevDependenciesFlat ==
    Returned("getDependencies") =>
        LET dev == ret.value.devDependencies
        IN  /\ \A i \in 1..Len(dev) : IsStr(dev[i])
            /\ Has(props, "additionalDependencies") =>
                   Range(props.additionalDependencies) \subseteq Names(dev)
            /\ (/\ Has(props, "language") /\ props.language = "javascript"
                /\ Has(props, "babelPresets")) =>
                   Range(props.babelPresets) \subseteq Names(dev)
            /\ NonDecreasing(dev)

----------------------------------------------------------------------------
(* C14 *)

\* The language is one of the three of the prompt whenever 'code' is selected
ValidLanguage ==
    Includes(props, "code") =>
        /\ Has(props, "language")
        /\ props.language \in {"coffeescript", "javascript", "typescript"}

\* C14: with a valid language the lint-staged map has exactly the keys
\* '*.json' and '*.{ts,md,yml}', the glob of the language's extension iff
\* 'code' is selected (coffee linter for coffeescript, 'eslint --cache --fix'
\* otherwise), and a '{css,less}' glob with the stylelint fix command iff
\* 'styles' is selected: 2 + [code] + [styles] entries.
C14_LintStagedKeySet ==
    (Returned("composeManifest") /\ ValidLanguage) =>
        LET tasks == ret.value["lint-staged"]
            ext == [coffeescript |-> "coffee", javascript |-> "js",
                    typescript |-> "ts"]
            codeKeys == IF Includes(props, "code")
                        THEN {"*." \o ext[props.language]} ELSE {}
            styleKeys == IF Includes(props, "styles")
                         THEN {"*.{css,less}"} ELSE {}
        IN  /\ DOMAIN tasks = {"*.json", "*.{ts,md,yml}"} \cup codeKeys
                                  \cup styleKeys
            /\ Cardinality(DOMAIN tasks) =
                   2 + Cardinality(codeKeys) + Cardinality(styleKeys)
            /\ tasks["*.json"] = "jsonlint --quiet"
            /\ tasks["*.{ts,md,yml}"] = "prettierx --write"
            /\ \A k \in codeKeys :
                   tasks[k] = IF props.language = "coffeescript"
                              THEN "coffeelint ./src"
                              ELSE "eslint --cache --fix"
            /\ \A k \in styleKeys : tasks[k] = "stylelint --fix"

----------------------------------------------------------------------------
(* C20 *)

\* The executable a command line starts with
FirstWord(command) ==
    LET spaces == {i \in 1..Len(command) : CharAt(command, i) = " "}
    IN  IF spaces = {} THEN command
        ELSE SubSeq(command, 1, (CHOOSE i \in spaces : \A j \in spaces : i <= j) - 1)

\* A package identifier without its version suffix: 'coffeelint@2' is
\* 'coffeelint'; the '@' of a scope ('@babel/core') starts no suffix
WithoutVersion(name) ==
    LET ats == {i \in 2..Len(name) : CharAt(name, i) = "@"}
    IN  IF ats = {} THEN name
        ELSE SubSeq(name, 1, (CHOOSE i \in ats : \A j \in ats : i <= j) - 1)

Tools ==
    {"webpack", "rollup", "eslint", "coffeelint", "stylelint", "jsonlint",
     "prettierx", "npm-run-all", "husky", "source-map-explorer"}

\* The tools the commands of the scripts and of the lint-staged map start
InvokedTools(manifest) ==
    {FirstWord(manifest.scripts[k]) : k \in DOMAIN manifest.scripts}
    \cup {FirstWord(manifest["lint-staged"][k]) :
              k \in DOMAIN manifest["lint-staged"]}

WellFormed ==
    Includes(props, "code") =>
        /\ Has(props, "language")
        /\ props.language \in {"coffeescript", "javascript", "typescript"}
        /\ Has(props, "bundler")
        /\ props.bundler \in {"rollup", "webpack"}

\* C20: for a well-formed record, every tool that a command of the manifest's
\* scripts or lint-staged map invokes has its package, version suffix
\* ignored, in the dev list getDependencies returns for the same record.
C20_InvokedToolsInstalled ==
    (call = "composeManifest" /\ WellFormed) =>
        /\ ret.kind = "return"
        /\ getDependencies(props).kind = "return"
        /\ LET installed ==
                   {WithoutVersion(n) :
                        n \in Names(getDependencies(props).value.devDependencies)}
           IN  (InvokedTools(ret.value) \cap Tools) \subseteq installed

C20_Witness ==
    /\ Returned("composeManifest")
    /\ {"code", "styles"} \subseteq props.features
    /\ Has(props, "language") /\ props.language = "coffeescript"
    /\ Has(props, "bundler") /\ props.bundler = "webpack"
    /\ {"coffeelint", "webpack", "stylelint", "jsonlint", "husky"}
           \subseteq InvokedTools(ret.value)
    /\ "coffeelint@2" \in Names(getDependencies(props).value.devDependencies)

----------------------------------------------------------------------------
(* The path helpers called on their own *)

\* The logical keys the generator passes to the path helpers
FilePaths ==
    {"src/main.ejs", "src/config.ejs", "src/hello-world.ejs",
     "rollup.config.js.ejs", "webpack.config.js.ejs"}

\* The directory this.templatePath resolves against
sourceRoot == Resolve(<<rootDir, "generators/app/templates">>)

\* this.templatePath(path)
templatePath(path) ==
    IF IsAbsolute(path) THEN path ELSE Join(<<sourceRoot, path>>)

TemplatesUnder(directory, paths) ==
    {Join(<<sourceRoot, directory, path>>) : path \in paths}

\* The template files of the repository
RepositoryTemplates ==
    TemplatesUnder("javascript", {"rollup.config.js.ejs"})
    \cup TemplatesUnder("coffeescript", {"rollup.config.js.ejs"})
    \cup TemplatesUnder("shared", {"ci/github-actions.yml"})

\* File systems: no template at all, the templates of the repository, every
\* key as a shared template only, and every key both for two of the
\* languages and shared
TemplateTrees ==
    {{},
     RepositoryTemplates,
     RepositoryTemplates \cup TemplatesUnder("shared", FilePaths),
     RepositoryTemplates \cup TemplatesUnder("shared", FilePaths)
         \cup TemplatesUnder("javascript", FilePaths)
         \cup TemplatesUnder("typescript", FilePaths)}

\* Records that vary the one answer the path helpers are passed
PathRecords ==
    {Identity @@ [features |-> {"code"}] @@ l :
        l \in Optional("language", Languages)}

InitPaths ==
    /\ props \in PathRecords
    /\ call = "none"
    /\ ret = NoCall
    /\ earlier = NoCall
    /\ filePath = ""
    /\ templates \in TemplateTrees
    /\ env = NoFields
    /\ pc = "idle"
    /\ asked = 0
    /\ effects = <<>>

CallGetTemplatePath ==
    /\ call = "none"
    /\ pc = "idle"
    /\ \E path \in FilePaths :
          /\ filePath' = path
          /\ ret' = getTemplatePath(path, Prop(props, "language"))
    /\ call' = "getTemplatePath"
    /\ props' = props
    /\ earlier' = Observed
    /\ UNCHANGED generator

CallGetDestinationPath ==
    /\ call = "none"
    /\ pc = "idle"
    /\ \E path \in FilePaths :
          /\ filePath' = path
          /\ ret' = getDestinationPath(path, Prop(props, "language"))
    /\ call' = "getDestinationPath"
    /\ props' = props
    /\ earlier' = Observed
    /\ UNCHANGED generator

NextPaths ==
    \/ CallGetTemplatePath
    \/ CallGetDestinationPath

SpecPaths == InitPaths /\ [][NextPaths]_vars

----------------------------------------------------------------------------
(* C15 *)

\* Directory and base name of each key, as the claim means them
DirectoryAndBaseName ==
    ("src/main.ejs" :> "src/main")
    @@ ("src/config.ejs" :> "src/config")
    @@ ("src/hello-world.ejs" :> "src/hello-world")
    @@ ("rollup.config.js.ejs" :> "./rollup.config.js")
    @@ ("webpack.config.js.ejs" :> "./webpack.config.js")

ExtensionOf ==
    [typescript |-> ".ts", javascript |-> ".js", coffeescript |-> ".coffee"]

\* The identifier each language value of the model stands for, letter case
\* put aside; 'python' stands for none
IdentifierOf ==
    [typescript |-> "typescript", javascript |-> "javascript",
     coffeescript |-> "coffeescript", TypeScript |-> "typescript"]

\* C15 as stated: getDestinationPath returns directory and base name with the
\* extension of the language for the three identifiers, and raises the
\* unsupported-language error for every other language value.
C15_DestinationOrUnsupported ==
    call = "getDestinationPath" =>
        IF Has(props, "language") /\ props.language \in DOMAIN ExtensionOf
        THEN ret = Return(DirectoryAndBaseName[filePath]
                          \o ExtensionOf[props.language])
        ELSE ret = Throw(UnsupportedLanguage)

\* C15 as amended: the language is compared without regard to letter case;
\* every other language string raises the unsupported-language error, and an
\* undefined language a TypeError.
C15_DestinationAnyLetterCase ==
    call = "getDestinationPath" =>
        IF Has(props, "language") /\ props.language \in DOMAIN IdentifierOf
        THEN ret = Return(DirectoryAndBaseName[filePath]
                          \o ExtensionOf[IdentifierOf[props.language]])
        ELSE IF Has(props, "language")
        THEN ret = Throw(UnsupportedLanguage)
        ELSE ret = Throw(TypeError)

C15_Witness ==
    /\ Returned("getDestinationPath")
    /\ Has(props, "language") /\ props.language = "TypeScript"
    /\ filePath = "src/hello-world.ejs"
    /\ ret.value = "src/hello-world.ts"

----------------------------------------------------------------------------
(* C16 *)

\* C16: getTemplatePath raises the template-not-found error iff neither the
\* language-specific nor the shared template file exists; otherwise the path
\* it returns designates a template that exists: the language-specific one
\* when that exists, else the shared one at the very location probed.
C16_ReturnsExistingTemplate ==
    (call = "getTemplatePath" /\ Has(props, "language")) =>
        LET languagePath ==
                sourceRoot \o "/" \o props.language \o "/" \o filePath
            sharedPath == sourceRoot \o "/shared/" \o filePath
        IN  /\ (ret.kind = "throw") =
                   (languagePath \notin templates /\ sharedPath \notin templates)
            /\ ret.kind = "throw" => ret.error = TemplateNotFound(filePath)
            /\ ret.kind = "return" =>
                   /\ templatePath(ret.value) \in templates
                   /\ templatePath(ret.value) =
                          IF languagePath \in templates THEN languagePath
                          ELSE sharedPath

----------------------------------------------------------------------------
(* The prompt of inquirer(): its questions, their `when` and their answers *)

\* The questions in the order of the array passed to this.prompt
Questions ==
    <<"name", "description", "author", "private", "license", "features",
      "language", "bundler", "packageManager", "activationCommands",
      "activationHooks", "rootScopeUsed", "grammarUsed", "workspaceOpeners",
      "workspaceOpenerURIs", "atomDependenciesQuestion", "atomDependencies",
      "additionalDependencies", "gaTrackingId", "addConfig", "babelPresets",
      "eslintConfig", "stylelintConfig", "vscodeTasks", "initGit",
      "linkDevPackage", "openInEditor">>

\* answers.features?.includes(x)
FeaturesInclude(answers, x) == Has(answers, "features") /\ x \in answers.features

\* answers.f?.includes(x) for a checkbox answer, an array
ArrayIncludes(answers, f, x) ==
    Has(answers, f) /\ \E i \in 1..Len(answers[f]) : answers[f][i] = x

\* String.prototype.includes
StringIncludes(s, part) ==
    \E i \in 1..(Len(s) - Len(part) + 1) : SubSeq(s, i, i + Len(part) - 1) = part

\* a confirm answer that is set and true
Confirmed(answers, f) == Has(answers, f) /\ answers[f]

WhenCode(answers) == FeaturesInclude(answers, "code")

WhenRootScopeUsed(answers) ==
    /\ FeaturesInclude(answers, "code")
    /\ ArrayIncludes(answers, "activationHooks", "root-scope-used")

WhenGrammarUsed(answers) ==
    /\ FeaturesInclude(answers, "code")
    /\ ArrayIncludes(answers, "activationHooks", "grammar-used")

WhenAdditionalDependencies(answers) ==
    /\ FeaturesInclude(answers, "code")
    /\ Prop(answers, "language") # Str("coffeescript")

WhenGaTrackingId(answers) ==
    /\ FeaturesInclude(answers, "code")
    /\ ArrayIncludes(answers, "additionalDependencies", "@atxm/metrics")

WhenBabelPresets(answers) ==
    /\ FeaturesInclude(answers, "code")
    /\ Prop(answers, "language") = Str("javascript")

\* Mutant: the linter configuration is asked for every language
WhenEslintConfig_AnyLanguage(answers) == FeaturesInclude(answers, "code")

WhenEslintConfig(answers) ==
    /\ FeaturesInclude(answers, "code")
    /\ Prop(answers, "language") # Str("coffeescript")

WhenStylelintConfig(answers) == FeaturesInclude(answers, "styles")

\* process.env.EDITOR?.includes(`${sep}code`) ||
\* process.env.VISUAL?.includes(`${sep}code`)
WhenVscodeTasks ==
    \/ Has(env, "EDITOR") /\ StringIncludes(env.EDITOR, "/code")
    \/ Has(env, "VISUAL") /\ StringIncludes(env.VISUAL, "/code")

\* process.env.EDITOR is set and not the empty string
WhenOpenInEditor == Has(env, "EDITOR") /\ env.EDITOR # ""

\* Whether a question is asked, given the answers so far; a question without
\* `when` always is, and so is 'author' (there is no option 'org')
When(question, answers) ==
    CASE question \in {"language", "bundler", "packageManager",
                       "activationCommands", "activationHooks",
                       "workspaceOpeners"} -> WhenCode(answers)
      [] question = "rootScopeUsed" -> WhenRootScopeUsed(answers)
      [] question = "grammarUsed" -> WhenGrammarUsed(answers)
      [] question = "workspaceOpenerURIs" -> Confirmed(answers, "workspaceOpeners")
      [] question = "atomDependencies" ->
             Confirmed(answers, "atomDependenciesQuestion")
      [] question = "additionalDependencies" -> WhenAdditionalDependencies(answers)
      [] question = "gaTrackingId" -> WhenGaTrackingId(answers)
      [] question = "babelPresets" -> WhenBabelPresets(answers)
      [] question = "eslintConfig" -> WhenEslintConfig(answers)
      [] question = "stylelintConfig" -> WhenStylelintConfig(answers)
      [] question = "vscodeTasks" -> WhenVscodeTasks
      [] question = "openInEditor" -> WhenOpenInEditor
      [] OTHER -> TRUE

\* Selections of the 'features' checkbox: nothing, styles only, code only,
\* and code with files of other features
FeatureAnswers ==
    {{}, {"styles"}, {"code"}, {"code", "keymaps", "menus", "styles"}}

LanguageChoices == {"coffeescript", "javascript", "typescript"}
BundlerChoices == {"rollup", "webpack"}
PackageManagerChoices == {"npm", "yarn"}

\* Selections of the 'activationHooks' checkbox: none and all
ActivationHookAnswers ==
    {<<>>, <<"core:loaded-shell-environment", "root-scope-used", "grammar-used">>}

\* Selections of the 'additionalDependencies' and 'babelPresets' checkboxes
AdditionalDependencyAnswers == {<<>>, <<"@atxm/metrics">>}
BabelPresetAnswers == {<<>>, <<"@babel/preset-flow">>}

\* Two of the choices of 'eslintConfig': one getPrettierConfig knows, and
\* the default of the question, which it does not
EslintConfigAnswers == {"airbnb", "eslint"}

\* What the user may type or select for each question
Choices(question) ==
    CASE question = "name" -> {"hello"}
      [] question = "description" -> {"Says hello"}
      [] question = "author" -> {"octocat"}
      [] question = "private" -> {FALSE}
      [] question = "license" -> {"MIT"}
      [] question = "features" -> FeatureAnswers
      [] question = "language" -> LanguageChoices
      [] question = "bundler" -> BundlerChoices
      [] question = "packageManager" -> PackageManagerChoices
      [] question = "activationCommands" -> BOOLEAN
      [] question = "activationHooks" -> ActivationHookAnswers
      [] question = "rootScopeUsed" -> {"source.js"}
      [] question = "grammarUsed" -> {"source.js"}
      [] question = "workspaceOpeners" -> BOOLEAN
      [] question = "workspaceOpenerURIs" -> {"atom://hello"}
      [] question = "atomDependenciesQuestion" -> BOOLEAN
      [] question = "atomDependencies" -> {"linter, busy-signal"}
      [] question = "additionalDependencies" -> AdditionalDependencyAnswers
      [] question = "gaTrackingId" -> {"UA-1234-5"}
      [] question = "addConfig" -> {<<"githubActions">>}
      [] question = "babelPresets" -> BabelPresetAnswers
      [] question = "eslintConfig" -> EslintConfigAnswers
      [] question = "stylelintConfig" -> {"recommended"}
      [] question = "vscodeTasks" -> {TRUE}
      [] question = "initGit" -> {TRUE}
      [] question = "linkDevPackage" -> {TRUE}
      [] question = "openInEditor" -> {TRUE}

\* The environments: no editor set, and Visual Studio Code as the editor
Environments == {NoFields, [EDITOR |-> "/usr/bin/code"]}

InitRun ==
    /\ props = NoFields
    /\ call = "none"
    /\ ret = NoCall
    /\ earlier = NoCall
    /\ filePath = ""
    /\ templates \in TemplateTrees
    /\ env \in Environments
    /\ pc = "prompt"
    /\ asked = 0
    /\ effects = <<>>

\* The next question is asked and its answer stored
AskQuestion ==
    /\ pc = "prompt"
    /\ asked < Len(Questions)
    /\ When(Questions[asked + 1], props)
    /\ \E answer \in Choices(Questions[asked + 1]) :
          props' = props @@ (Questions[asked + 1] :> answer)
    /\ asked' = asked + 1
    /\ UNCHANGED <<call, ret, earlier, filePath, templates, env, pc, effects>>

\* The `when` of the next question is false: it leaves no answer
SkipQuestion ==
    /\ pc = "prompt"
    /\ asked < Len(Questions)
    /\ ~When(Questions[asked + 1], props)
    /\ asked' = asked + 1
    /\ UNCHANGED <<props, call, ret, earlier, filePath, templates, env, pc,
                   effects>>

----------------------------------------------------------------------------
(* The callback of the prompt: what it does, section by section.            *)
(* this.fs.copy and this.fs.copyTpl are recorded with their arguments; the  *)
(* outcome of a section is the effects it adds, the helper it called last   *)
(* and how that call completed (a throw ends the callback).                 *)

\* props.f = v
Assign(p, f, v) == [k \in DOMAIN p \cup {f} |-> IF k = f THEN v ELSE p[k]]

\* String.prototype.replace(pattern, replacement) for a pattern of one
\* character: the first occurrence is replaced
ReplaceFirst(s, pattern, replacement) ==
    LET found == {i \in 1..Len(s) : CharAt(s, i) = pattern}
    IN  IF found = {} THEN s
        ELSE LET at == CHOOSE i \in found : \A j \in found : i <= j
             IN  SubSeq(s, 1, at - 1) \o replacement \o SubSeq(s, at + 1, Len(s))

\* String.prototype.startsWith
NameStartsWith(s, prefix) ==
    Len(s) >= Len(prefix) /\ SubSeq(s, 1, Len(prefix)) = prefix

\* this.destinationPath(path)
destinationPath(path) == Join(<<cwd, path>>)

MakeDir(path) == [op |-> "mkdir", path |-> path]
Copy(from, to) == [op |-> "copy", from |-> from, to |-> to]
CopyTpl(from, to, data) == [op |-> "copyTpl", from |-> from, to |-> to, data |-> data]
WriteFile(from, to, format) ==
    [op |-> "writeFile", from |-> from, to |-> to, format |-> format]
Install(api, packages, options) ==
    [op |-> api, packages |-> packages, options |-> options]
\* command is Str(s) or Undefined
Spawn(command, args) == [op |-> "spawn", command |-> command, args |-> args]

\* A section that called no helper
Done(es) == [effects |-> es, call |-> "none", ret |-> NoCall]

\* A section whose last helper call was `helper`
After(helper, completion, es) ==
    [effects |-> es, call |-> helper, ret |-> completion]

\* Section a, then section b unless a threw
Both(a, b) ==
    IF a.ret.kind = "throw" THEN a
    ELSE IF b.call = "none"
    THEN [effects |-> a.effects \o b.effects, call |-> a.call, ret |-> a.ret]
    ELSE [effects |-> a.effects \o b.effects, call |-> b.call, ret |-> b.ret]

If(condition, es) == IF condition THEN es ELSE <<>>

\* The choices of the 'features' checkbox in their order
FeatureOrder == <<"code", "grammars", "keymaps", "menus", "snippets", "styles">>

\* lines 525-539
ProcessedAnswers(p) ==
    LET named ==
            [className |-> [pascalCase |-> ReplaceFirst(p.name, "-", " ")],
             licenseURL |-> [spdx |-> p.license, field |-> "url"],
             licenseName |-> [spdx |-> p.license, field |-> "name"],
             licenseText |-> [spdx |-> p.license, field |-> "licenseText"],
             repositoryName |-> IF NameStartsWith(p.name, "atom-") THEN p.name
                                ELSE "atom-" \o p.name,
             lintScript |-> IF FeaturesInclude(p, "styles")
                            THEN "npm run lint:code && npm run lint:styles"
                            ELSE "npm run lint:code"]
            @@ p
    IN  IF Has(named, "atomDependencies")
        \* the array of the trimmed entries that map returns is dropped
        THEN Assign(named, "atomDependencies", Split(named.atomDependencies, ","))
        ELSE named

\* line 598
WithMetrics(p) ==
    /\ FeaturesInclude(p, "code")
    /\ ArrayIncludes(p, "additionalDependencies", "@atxm/metrics")

\* lines 598-605
MetricsAnswers(p) ==
    IF WithMetrics(p)
    THEN Assign(p, "metricsContructor",
                IF Prop(p, "language") = Str("coffeescript")
                THEN "# Initialize Metrics\n    Metrics.init \""
                     \o Template(p, "gaTrackingId") \o "\""
                ELSE "\n            // Initialize Metrics\n            Metrics.init("
                     \o Template(p, "gaTrackingId") \o ");\n          ")
    ELSE p

\* lines 541-607: directories of the features, keymaps, menus and styles
FeatureFiles(p) ==
    LET others == SelectSeq(FeatureOrder,
                            LAMBDA f : f \in p.features /\ f # "code")
        keymaps == FeaturesInclude(p, "code") /\ FeaturesInclude(p, "keymaps")
        menus == FeaturesInclude(p, "code") /\ FeaturesInclude(p, "menus")
        pkg == [pkg |-> p]
    IN  Done([i \in 1..Len(others) |-> MakeDir(others[i])]
             \o (IF Prop(p, "language") = Str("coffeescript")
                 THEN If(keymaps,
                         <<CopyTpl(templatePath("coffeescript/keymaps/keymap.cson.ejs"),
                                   destinationPath("keymaps/" \o p.name \o ".cson"),
                                   pkg)>>)
                      \o If(menus,
                            <<CopyTpl(templatePath("coffeescript/menus/menu.cson.ejs"),
                                      destinationPath("menus/" \o p.name \o ".cson"),
                                      pkg)>>)
                 ELSE If(keymaps,
                         <<CopyTpl(templatePath("shared/keymaps/keymap.json.ejs"),
                                   destinationPath("keymaps/" \o p.name \o ".json"),
                                   pkg)>>)
                      \o If(menus,
                            <<CopyTpl(templatePath("shared/menus/menu.json.ejs"),
                                      destinationPath("menus/" \o p.name \o ".json"),
                                      pkg)>>))
             \o If(FeaturesInclude(p, "styles"),
                   <<CopyTpl(templatePath("shared/styles/style.less.ejs"),
                             destinationPath("styles/" \o p.name \o ".less"),
                             pkg)>>)
             \o <<MakeDir("src")>>)

NoSuchFile(path) == "ENOENT: no such file or directory, open '" \o path \o "'"

\* copyPrettyTpl, lines 30-42: the template is read from the file system,
\* rendered, formatted by the options of getPrettierConfig and written
copyPrettyTpl(inputFile, outputFile, p) ==
    IF ~fileExists(inputFile)
    THEN After("readFile", Throw(NoSuchFile(inputFile)), <<>>)
    ELSE LET config == getPrettierConfig(Prop(p, "eslintConfig"))
         IN  After("getPrettierConfig", config,
                   <<WriteFile(inputFile, outputFile,
                               [parser |-> "babel"]
                               @@ (IF config.value = Undefined THEN NoFields
                                   ELSE config.value))>>)

\* One template looked up for the language and copied to the destination of
\* the language: the arguments are evaluated in order, then the copy is made,
\* by copyPrettyTpl (line 626) or by this.fs.copyTpl (lines 628-641)
CopyForLanguage(key, p, pretty) ==
    LET template == getTemplatePath(key, Prop(p, "language"))
        destination == getDestinationPath(key, Prop(p, "language"))
    IN  IF template.kind = "throw" THEN After("getTemplatePath", template, <<>>)
        ELSE IF destination.kind = "throw"
        THEN After("getDestinationPath", destination, <<>>)
        ELSE Both(After("getDestinationPath", destination, <<>>),
                  IF pretty
                  THEN copyPrettyTpl(templatePath(template.value),
                                     destinationPath(destination.value), p)
                  ELSE Done(<<CopyTpl(templatePath(template.value),
                                      destinationPath(destination.value),
                                      [pkg |-> p])>>))

\* lines 609-641
SourceFiles(p) ==
    IF ~FeaturesInclude(p, "code") THEN Done(<<>>)
    ELSE Both(IF Prop(p, "language") = Str("coffeescript")
              THEN Done(<<CopyTpl(templatePath("coffeescript/src/main.ejs"),
                                  destinationPath("src/main.coffee"),
                                  [pkg |-> p])>>)
              ELSE CopyForLanguage("src/main.ejs", p, TRUE),
              Both(CopyForLanguage("src/config.ejs", p, FALSE),
                   CopyForLanguage("src/hello-world.ejs", p, FALSE)))

\* lines 659-668
BundlerConfigFile(p) ==
    LET bundlerConfig == IF Prop(p, "bundler") = Str("rollup")
                         THEN "rollup.config.js" ELSE "webpack.config.js"
        template == getTemplatePath(bundlerConfig \o ".ejs", Prop(p, "language"))
    IN  IF ~FeaturesInclude(p, "code") THEN Done(<<>>)
        ELSE IF template.kind = "throw"
        THEN After("getTemplatePath", template, <<>>)
        ELSE After("getTemplatePath", template,
                   <<Copy(templatePath(template.value),
                          destinationPath(bundlerConfig))>>)

\* lines 670-700
ContinuousIntegrationFiles(p) ==
    If(ArrayIncludes(p, "addConfig", "bitbucketPipelines"),
       <<Copy(templatePath("shared/ci/bitbucket-pipelines.yml"),
              destinationPath("bitbucket-pipelines.yml"))>>)
    \o If(ArrayIncludes(p, "addConfig", "circleCI"),
          <<MakeDir(".circleci"),
            CopyTpl(templatePath("shared/ci/circleci.yml"),
                    destinationPath(".circleci/config.yml"), NoFields)>>)
    \o If(ArrayIncludes(p, "addConfig", "githubActions"),
          <<MakeDir(".github/workflows"),
            CopyTpl(templatePath("shared/ci/github-actions.yml"),
                    destinationPath(".github/workflows/nodejs.yml"), NoFields)>>)
    \o If(ArrayIncludes(p, "addConfig", "travisCI"),
          <<Copy(templatePath("shared/ci/travis.yml"),
                 destinationPath(".travis.yml"))>>)

\* lines 643-733
ProjectFiles(p) ==
    Both(Done(<<CopyTpl(templatePath("shared/README.md.ejs"),
                        destinationPath("README.md"), [pkg |-> p]),
                CopyTpl(templatePath("shared/LICENSE.ejs"),
                        destinationPath("LICENSE"),
                        [licenseText |-> p.licenseText])>>),
         Both(BundlerConfigFile(p),
              Done(ContinuousIntegrationFiles(p)
                   \o <<Copy(templatePath("shared/_editorconfig"),
                             destinationPath(".editorconfig")),
                        CopyTpl(templatePath("shared/_gitignore"),
                                destinationPath(".gitignore"),
                                [foreignLockfile |->
                                    IF Prop(p, "packageManager") = Str("yarn")
                                    THEN "package-lock-json" ELSE "yarn.lock"]),
                        CopyTpl(templatePath("shared/_gitattributes"),
                                destinationPath(".gitattributes"),
                                [foreign |-> p])>>
                   \o If(FeaturesInclude(p, "styles"),
                         <<CopyTpl(templatePath("shared/_stylelintrc.ejs"),
                                   destinationPath(".stylelintrc"),
                                   [pkg |-> p])>>))))

\* lines 735-777
LinterFiles(p) ==
    IF ~FeaturesInclude(p, "code") THEN <<>>
    ELSE IF Prop(p, "language") = Str("coffeescript")
    THEN <<Copy(templatePath("coffeescript/_coffeelintignore"),
                destinationPath(".coffeelintignore")),
           Copy(templatePath("coffeescript/coffeelint.json"),
                destinationPath("coffeelint.json"))>>
    ELSE IF Prop(p, "language") = Str("javascript")
    THEN <<CopyTpl(templatePath("javascript/_eslintrc.ejs"),
                   destinationPath(".eslintrc.cjs"), [pkg |-> p])>>
    ELSE IF Prop(p, "language") = Str("typescript")
    THEN <<CopyTpl(templatePath("typescript/_eslintrc.ejs"),
                   destinationPath(".eslintrc.cjs"), [pkg |-> p])>>
         \o If(Prop(p, "bundler") = Str("webpack"),
               <<Copy(templatePath("typescript/tsconfig.json"),
                      destinationPath("tsconfig.json"))>>)
    ELSE <<>>

\* lines 779-788
BabelFile(p) ==
    IF Prop(p, "language") \in {Str("javascript"), Str("typescript")}
    THEN After("composeBabel", composeBabel(p),
               <<CopyTpl(templatePath(p.language \o "/_babelrc.ejs"),
                         destinationPath(".babelrc"),
                         [babelrc |-> composeBabel(p).value, indentation |-> 2])>>)
    ELSE Done(<<>>)

\* lines 808-818
EditorFiles(p) ==
    <<Copy(templatePath("shared/_husky"), destinationPath(".husky/pre-commit"))>>
    \o If(Confirmed(p, "vscodeTasks"),
          <<Copy(templatePath("shared/vscode/tasks.json"),
                 destinationPath(".vscode/tasks.json"))>>)

\* lines 820-828
ManifestFile(p) ==
    LET manifest == composeManifest(p)
    IN  IF manifest.kind = "throw" THEN After("composeManifest", manifest, <<>>)
        ELSE After("composeManifest", manifest,
                   <<CopyTpl(templatePath("shared/package.json.ejs"),
                             destinationPath("package.json"),
                             [manifest |-> manifest.value, indentation |-> 2])>>)

\* The install methods a generator has for `${packageManager}Install`
InstallMethods == {"npmInstall", "yarnInstall", "bowerInstall"}

NotAFunction == "TypeError: this[installApi] is not a function"

\* lines 830-837
Installation(p) ==
    LET lists == getDependencies(p).value
        installApi == Template(p, "packageManager") \o "Install"
        runtime == FeaturesInclude(p, "code") /\ Len(lists.dependencies) > 0
        development == Len(lists.devDependencies) > 0
    IN  IF (runtime \/ development) /\ installApi \notin InstallMethods
        THEN After(installApi, Throw(NotAFunction), <<>>)
        ELSE After("getDependencies", getDependencies(p),
                   If(runtime, <<Install(installApi, lists.dependencies,
                                         [ignoreScripts |-> TRUE])>>)
                   \o If(development, <<Install(installApi, lists.devDependencies,
                                                [dev |-> TRUE])>>))

\* lines 839-852
LastCommands(p) ==
    If(Confirmed(p, "initGit"), <<Spawn(Str("git"), <<"init">>)>>)
    \o If(Confirmed(p, "linkDevPackage"), <<Spawn(Str("apm"), <<"link", "--dev">>)>>)
    \o If(Confirmed(p, "openInEditor"), <<Spawn(Prop(env, "EDITOR"), <<".">>)>>)

----------------------------------------------------------------------------
(* A run of the generator: the prompt, then the sections of its callback *)

\* One section of the callback: its effects are added, the helper call it
\* ended with is noted, and a throw rejects the promise of the run
Section(to, outcome, answers) ==
    /\ effects' = effects \o outcome.effects
    /\ props' = answers
    /\ IF outcome.call = "none"
       THEN UNCHANGED <<call, ret>>
       ELSE call' = outcome.call /\ ret' = outcome.ret
    /\ pc' = IF outcome.ret.kind = "throw" THEN "rejected" ELSE to
    /\ UNCHANGED <<earlier, filePath, templates, env, asked>>

ProcessAnswers ==
    /\ pc = "prompt"
    /\ asked = Len(Questions)
    /\ Section("features", Done(<<>>), ProcessedAnswers(props))

CopyFeatureFiles ==
    /\ pc = "features"
    /\ Section("sources", FeatureFiles(props), MetricsAnswers(props))

CopySources ==
    /\ pc = "sources"
    /\ Section("project", SourceFiles(props), props)

CopyProjectFiles ==
    /\ pc = "project"
    /\ Section("linters", ProjectFiles(props), props)

CopyLinterFiles ==
    /\ pc = "linters"
    /\ Section("editor", Both(Done(LinterFiles(props)), BabelFile(props)), props)

CopyEditorFiles ==
    /\ pc = "editor"
    /\ Section("manifest", Done(EditorFiles(props)), props)

WriteManifest ==
    /\ pc = "manifest"
    /\ Section("install", ManifestFile(props), props)

InstallDependencies ==
    /\ pc = "install"
    /\ Section("commands", Installation(props), props)

RunLastCommands ==
    /\ pc = "commands"
    /\ Section("done", Done(LastCommands(props)), props)

NextRun ==
    \/ AskQuestion
    \/ SkipQuestion
    \/ ProcessAnswers
    \/ CopyFeatureFiles
    \/ CopySources
    \/ CopyProjectFiles
    \/ CopyLinterFiles
    \/ CopyEditorFiles
    \/ WriteManifest
    \/ InstallDependencies
    \/ RunLastCommands

SpecRun == InitRun /\ [][NextRun]_vars

----------------------------------------------------------------------------
(* C17 *)

\* C17: when the user typed atomDependencies and 'code' is selected, the
\* package-deps of the manifest are the comma-separated identifiers, each
\* without leading and trailing white space ('linter, busy-signal' yields
\* ['linter', 'busy-signal']).
C17_PackageDepsTrimmed ==
    (/\ pc \in {"install", "commands", "done"}
     /\ FeaturesInclude(props, "code")
     /\ Confirmed(props, "atomDependenciesQuestion")) =>
        \E written \in Range(effects) :
            /\ written.op = "copyTpl"
            /\ written.to = destinationPath("package.json")
            /\ LET deps == written.data.manifest["package-deps"]
               IN  /\ IsArr(deps)
                   /\ \A i \in 1..Len(deps.arr) : Trim(deps.arr[i]) = deps.arr[i]
                   /\ \E typed \in Choices("atomDependencies") :
                          deps.arr = [i \in 1..Len(Split(typed, ",")) |->
                                         Trim(Split(typed, ",")[i])]

----------------------------------------------------------------------------
(* C18 *)

PromptFinished == pc # "idle" /\ asked = Len(Questions)

\* C18: every answer record the prompt produces has language and bundler
\* defined iff 'code' is selected, eslintConfig defined iff 'code' is selected
\* and the language is not coffeescript, and stylelintConfig defined iff
\* 'styles' is selected.
C18_AnswersWellFormed ==
    PromptFinished =>
        /\ Has(props, "language") = ("code" \in props.features)
        /\ Has(props, "bundler") = ("code" \in props.features)
        /\ Has(props, "eslintConfig") =
               ("code" \in props.features /\ props.language # "coffeescript")
        /\ Has(props, "stylelintConfig") = ("styles" \in props.features)

C18_Witness ==
    /\ pc = "prompt"
    /\ PromptFinished
    /\ props.features = {"code", "keymaps", "menus", "styles"}
    /\ props.language = "coffeescript"
    /\ props.bundler = "rollup"
    /\ ~Has(props, "eslintConfig")
    /\ props.stylelintConfig = "recommended"

----------------------------------------------------------------------------
(* C19 *)

IsInstall(effect) ==
    effect.op \notin {"mkdir", "copy", "copyTpl", "writeFile", "spawn"}

\* C19: in every run, with or without 'code', package.json, rendered from
\* the manifest of composeManifest, is written before any install call; the
\* record that reaches the install step has packageManager 'npm' or 'yarn',
\* and the step is one call of npmInstall or yarnInstall with the dev list
\* of getDependencies.
C19_ManifestThenOneInstall ==
    /\ \A i \in 1..Len(effects) :
          IsInstall(effects[i]) =>
              \E j \in 1..(i - 1) :
                  /\ effects[j].op = "copyTpl"
                  /\ effects[j].to = destinationPath("package.json")
                  /\ effects[j].data.manifest = composeManifest(props).value
    /\ pc = "install" =>
           Prop(props, "packageManager") \in {Str("npm"), Str("yarn")}
    /\ (pc = "rejected" /\ ret.kind = "throw") => ret.error # NotAFunction
    /\ pc \in {"commands", "done"} =>
           LET installs == {i \in 1..Len(effects) : IsInstall(effects[i])}
           IN  /\ Cardinality(installs) = 1
               /\ \A i \in installs :
                     /\ effects[i].op \in {"npmInstall", "yarnInstall"}
                     /\ effects[i].op = props.packageManager \o "Install"
                     /\ effects[i].packages =
                            getDependencies(props).value.devDependencies

----------------------------------------------------------------------------
(* C21 *)

CodeWithKnownBundler ==
    /\ Includes(props, "code")
    /\ Has(props, "bundler") /\ props.bundler \in {"rollup", "webpack"}

\* The keys of a lint-staged map that are neither of the two fixed globs nor
\* the glob of the style sheets
CodeKeys(tasks) == DOMAIN tasks \ {"*.json", "*.{ts,md,yml}", "*.(c|le)ss"}

\* C21: for a record with 'code' and a valid bundler, composeManifest either
\* raises the unsupported-language error, the language being none of the
\* three known values, or returns a manifest whose lint-staged code key is
\* '*.<ext>' with <ext> one of coffee, js, ts and the extension of
\* scripts['lint:code'] for the language; no key is '*.undefined', also when
\* the language differs from a known one in letter case only.
C21_CodeKeyOrUnsupportedLanguage ==
    (call = "composeManifest" /\ CodeWithKnownBundler) =>
        \/ /\ ret = Throw(UnsupportedLanguage)
           /\ ~(/\ Has(props, "language")
                /\ props.language \in {"coffeescript", "javascript", "typescript"})
        \/ /\ ret.kind = "return"
           /\ "*.undefined" \notin DOMAIN ret.value["lint-staged"]
           /\ \E ext \in {"coffee", "js", "ts"} :
                 /\ CodeKeys(ret.value["lint-staged"]) = {"*." \o ext}
                 /\ ret.value.scripts["lint:code"] \in
                        {"coffeelint ./src",
                         "eslint --ignore-path .gitignore --no-error-on-unmatched-pattern ./src/**/*."
                         \o ext}
                 /\ (ret.value.scripts["lint:code"] = "coffeelint ./src")
                        = (ext = "coffee")

====
